---- MODULE Spec2Model ----
(***************************************************************************)
(* A model of the Kraken REST client of src/src/kraken_api.rs: the private *)
(* request signer (private_request, create_signature) and the response     *)
(* envelope decoder (KrakenResponse, the untagged Responses enum and the   *)
(* seven endpoint methods).                                                *)
(*                                                                         *)
(* JSON values are records [k, s, m]: k is the JSON kind, s the text of a  *)
(* string, m the elements of an array or the <<key, value>> members of an  *)
(* object in wire order.  A serde deserializer is an operator that gives   *)
(* "ok", "err" (a serde error, which an untagged enum recovers from) or    *)
(* "panic" (an unwrap() on a failed parse, which unwinds the whole call).  *)
(***************************************************************************)
EXTENDS Integers, Sequences, FiniteSets, TLC

\* ------------------------------------------------------------------ bounds
\* Largest number of pairs in a generated result map.
MaxPairs == 2
\* Largest length of the caller's parameter list.
MaxParams == 2
\* Largest reading of the system clock (nanoseconds since the epoch).
MaxClock == 3
\* Number of concurrent callers of private_request.
NumProcs == 2
\* Largest number of requests recorded on the wire by the concurrent callers.
MaxEmit == 3

\* -------------------------------------------------------------- JSON values
Null == [k |-> "null", s |-> "", m |-> <<>>]
U64 == [k |-> "u64", s |-> "", m |-> <<>>]
F64 == [k |-> "f64", s |-> "", m |-> <<>>]
Str(text) == [k |-> "str", s |-> text, m |-> <<>>]
Arr(elems) == [k |-> "arr", s |-> "", m |-> elems]
Obj(members) == [k |-> "obj", s |-> "", m |-> members]

\* f64::from_str on the strings the model uses.
ParsesAsF64(text) == text \in {"0.5", "1603.2", "0", "80"}

\* The first result that is not "ok", in wire order; "ok" when all are.
FirstBad(rs) ==
    IF \E i \in 1..Len(rs) : rs[i] # "ok"
    THEN rs[CHOOSE i \in 1..Len(rs) : rs[i] # "ok" /\ \A j \in 1..(i-1) : rs[j] = "ok"]
    ELSE "ok"

\* ------------------------------------------------------------ serde types
\* A type is a record [t, of, fields]; a struct field is [name, ty, req],
\* req = TRUE when a missing field is an error (no Option, no serde(default)).
Prim(n) == [t |-> n, of |-> <<>>, fields |-> <<>>]
VecOf(ty) == [t |-> "Vec", of |-> <<ty>>, fields |-> <<>>]
OptionOf(ty) == [t |-> "Option", of |-> <<ty>>, fields |-> <<>>]
TupleOf(tys) == [t |-> "Tuple", of |-> tys, fields |-> <<>>]
HashMapOf(ty) == [t |-> "HashMap", of |-> <<ty>>, fields |-> <<>>]
StructOf(fs) == [t |-> "Struct", of |-> <<>>, fields |-> fs]
Field(n, ty) == [name |-> n, ty |-> ty, req |-> ty.t # "Option"]
DefaultField(n, ty) == [name |-> n, ty |-> ty, req |-> FALSE]

TString == Prim("String")
TU64 == Prim("u64")
TF64 == Prim("f64")

from_f64_str == Prim("from_f64_str")
from_f64_option_str == Prim("from_f64_option_str")
from_f64_str_vec == Prim("from_f64_str_vec")
from_tuple == Prim("from_tuple")

RECURSIVE De(_, _)
\* Vec<T>: a JSON array whose elements all deserialize, tried in order.
DeVec(ty, v) ==
    IF v.k # "arr" THEN "err"
    ELSE FirstBad([i \in 1..Len(v.m) |-> De(ty, v.m[i])])

\* A tuple: a JSON array of exactly the tuple's length.
DeTuple(tys, v) ==
    IF v.k # "arr" \/ Len(v.m) # Len(tys) THEN "err"
    ELSE FirstBad([i \in 1..Len(tys) |-> De(tys[i], v.m[i])])

\* HashMap<String, T>: a JSON object whose values all deserialize, in order.
DeHashMap(ty, v) ==
    IF v.k # "obj" THEN "err"
    ELSE FirstBad([i \in 1..Len(v.m) |-> De(ty, v.m[i][2])])

\* A derived struct without deny_unknown_fields.  From an object: members in
\* wire order, unknown keys skipped, a repeated known key is an error, then
\* the missing required fields are an error.  From an array: the fields by
\* position, with exactly as many elements as fields.
DeStruct(fs, v) ==
    LET names == {fs[j].name : j \in 1..Len(fs)}
        fieldOf(n) == fs[CHOOSE j \in 1..Len(fs) : fs[j].name = n]
        member(i) ==
            IF v.m[i][1] \notin names THEN "ok"
            ELSE IF \E j \in 1..(i-1) : v.m[j][1] = v.m[i][1] THEN "err"
            ELSE De(fieldOf(v.m[i][1]).ty, v.m[i][2])
        inOrder == FirstBad([i \in 1..Len(v.m) |-> member(i)])
        present == {v.m[i][1] : i \in 1..Len(v.m)}
    IN  CASE v.k = "obj" ->
               IF inOrder # "ok" THEN inOrder
               ELSE IF \E j \in 1..Len(fs) : fs[j].req /\ fs[j].name \notin present
                    THEN "err" ELSE "ok"
          [] v.k = "arr" ->
               IF Len(v.m) # Len(fs) THEN "err"
               ELSE FirstBad([i \in 1..Len(fs) |-> De(fs[i].ty, v.m[i])])
          [] OTHER -> "err"

De(ty, v) ==
    CASE ty.t = "String" -> IF v.k = "str" THEN "ok" ELSE "err"
      [] ty.t = "u64" -> IF v.k = "u64" THEN "ok" ELSE "err"
      [] ty.t = "f64" -> IF v.k \in {"u64", "f64"} THEN "ok" ELSE "err"
      [] ty.t = "Option" -> IF v.k = "null" THEN "ok" ELSE De(ty.of[1], v)
      [] ty.t = "Vec" -> DeVec(ty.of[1], v)
      [] ty.t = "Tuple" -> DeTuple(ty.of, v)
      [] ty.t = "HashMap" -> DeHashMap(ty.of[1], v)
      [] ty.t = "Struct" -> DeStruct(ty.fields, v)
      \* an untagged enum: "ok" when a variant accepts before any panics
      [] ty.t = "Untagged" ->
            LET rs == [i \in 1..Len(ty.of) |-> De(ty.of[i], v)]
            IN  IF \A i \in 1..Len(rs) : rs[i] = "err" THEN "err"
                ELSE rs[CHOOSE i \in 1..Len(rs) :
                            rs[i] # "err" /\ \A j \in 1..(i-1) : rs[j] = "err"]
      \* from_f64_str: a string, then f64::from_str(s).map_err(custom)
      [] ty.t = "from_f64_str" ->
            IF v.k = "str" /\ ParsesAsF64(v.s) THEN "ok" ELSE "err"
      \* from_f64_option_str: Option<&str>, then s.parse().unwrap()
      [] ty.t = "from_f64_option_str" ->
            IF v.k = "null" THEN "ok"
            ELSE IF v.k # "str" THEN "err"
            ELSE IF ParsesAsF64(v.s) THEN "ok" ELSE "panic"
      \* from_f64_str_vec: Vec<String>, then num.parse().unwrap() on each
      [] ty.t = "from_f64_str_vec" ->
            IF DeVec(TString, v) # "ok" THEN "err"
            ELSE IF \A i \in 1..Len(v.m) : ParsesAsF64(v.m[i].s) THEN "ok" ELSE "panic"
      \* from_tuple: Vec<(String, String, u64)>, then parse().unwrap() on .0 and .1
      [] ty.t = "from_tuple" ->
            IF DeVec(TupleOf(<<TString, TString, TU64>>), v) # "ok" THEN "err"
            ELSE IF \A i \in 1..Len(v.m) :
                      ParsesAsF64(v.m[i].m[1].s) /\ ParsesAsF64(v.m[i].m[2].s)
                 THEN "ok" ELSE "panic"
      [] OTHER -> "err"

\* An untagged enum of the variants [name, ty], in declaration order.
UntaggedOf(variants) ==
    [t |-> "Untagged", of |-> [i \in 1..Len(variants) |-> variants[i].ty], fields |-> <<>>]

\* An untagged enum that resolves to the last variant that accepts.
UntaggedPickLast(variants, v) ==
    LET rs == [i \in 1..Len(variants) |-> De(variants[i].ty, v)]
    IN  IF \A i \in 1..Len(rs) : rs[i] = "err" THEN 0
        ELSE LET i == CHOOSE i \in 1..Len(rs) :
                          rs[i] # "err" /\ \A j \in (i+1)..Len(rs) : rs[j] = "err"
             IN  IF rs[i] = "ok" THEN i ELSE -1

\* The index of the variant an untagged enum resolves to: the first in
\* declaration order that accepts.  0 when none accepts; -1 when a variant's
\* deserializer panics before any accepts.
UntaggedPick(variants, v) ==
    LET rs == [i \in 1..Len(variants) |-> De(variants[i].ty, v)]
    IN  IF \A i \in 1..Len(rs) : rs[i] = "err" THEN 0
        ELSE LET i == CHOOSE i \in 1..Len(rs) :
                          rs[i] # "err" /\ \A j \in 1..(i-1) : rs[j] = "err"
             IN  IF rs[i] = "ok" THEN i ELSE -1

\* ------------------------------------------------------------ payload types
Asset == StructOf(<<
    Field("aclass", TString), Field("altname", TString),
    Field("decimals", TU64), Field("display_decimals", TU64) >>)

AssetPairInfo == StructOf(<<
    Field("altname", TString), Field("wsname", OptionOf(TString)),
    Field("aclass_base", TString), Field("base", TString),
    Field("aclass_quote", TString), Field("quote", TString),
    Field("lot", TString), Field("pair_decimals", TU64),
    Field("lot_decimals", TU64), Field("lot_multiplier", TU64),
    Field("leverage_buy", VecOf(TU64)), Field("leverage_sell", VecOf(TU64)),
    Field("fees", VecOf(VecOf(TF64))),
    Field("fees_maker", OptionOf(VecOf(VecOf(TF64)))),
    Field("fee_volume_currency", TString),
    Field("margin_call", TU64), Field("margin_stop", TU64),
    DefaultField("ordermin", from_f64_option_str) >>)

AssetPairFees == StructOf(<<
    Field("fees", VecOf(VecOf(TF64))), Field("fee_volume_currency", TString) >>)

AssetPairMargin == StructOf(<<
    Field("margin_call", TU64), Field("margin_level", TU64) >>)

\* AssetPairs with Fees declared before Info: every full pair record also
\* holds fees and fee_volume_currency, so Fees would shadow Info.
AssetPairsVariantsFeesFirst == <<
    [name |-> "Fees", ty |-> HashMapOf(AssetPairFees)],
    [name |-> "Info", ty |-> HashMapOf(AssetPairInfo)],
    [name |-> "Margin", ty |-> HashMapOf(AssetPairMargin)] >>

\* enum AssetPairs, untagged: Info, Fees, Margin in declaration order.
AssetPairsVariants == <<
    [name |-> "Info", ty |-> HashMapOf(AssetPairInfo)],
    [name |-> "Fees", ty |-> HashMapOf(AssetPairFees)],
    [name |-> "Margin", ty |-> HashMapOf(AssetPairMargin)] >>
AssetPairs == UntaggedOf(AssetPairsVariants)

Ticker == StructOf(<<
    Field("a", from_f64_str_vec), Field("b", from_f64_str_vec),
    Field("c", from_f64_str_vec), Field("v", from_f64_str_vec),
    Field("p", from_f64_str_vec), Field("t", VecOf(TU64)),
    Field("l", from_f64_str_vec), Field("h", from_f64_str_vec),
    Field("o", from_f64_str) >>)

OrderBook == StructOf(<< Field("asks", from_tuple), Field("bids", from_tuple) >>)

TradeBalance == StructOf(<<
    Field("eb", from_f64_str), Field("tb", from_f64_str),
    Field("m", from_f64_str), Field("n", from_f64_str),
    Field("c", from_f64_str), Field("v", from_f64_str),
    Field("e", from_f64_str), Field("mf", from_f64_str),
    DefaultField("ml", from_f64_option_str) >>)

OpenOrderDescription == StructOf(<<
    Field("pair", TString), Field("type", TString), Field("ordertype", TString),
    Field("price", from_f64_str), Field("price2", from_f64_str),
    Field("leverage", TString), Field("order", TString), Field("close", TString) >>)

OpenOrder == StructOf(<<
    Field("refid", OptionOf(TString)), Field("userref", TU64),
    Field("status", TString), Field("opentm", TF64), Field("starttm", TF64),
    Field("expiretm", TF64), Field("descr", OpenOrderDescription),
    Field("vol", from_f64_str), Field("vol_exec", from_f64_str),
    Field("cost", from_f64_str), Field("fee", from_f64_str),
    Field("price", from_f64_str), Field("stopprice", from_f64_str),
    Field("limitprice", from_f64_str), Field("misc", TString),
    Field("oflags", TString), Field("trades", OptionOf(VecOf(TString))) >>)

\* enum Responses with the open orders as a top-level map, like every other
\* map-returning endpoint.
ResponsesUnwrappedOrders == <<
    [name |-> "Assets", ty |-> HashMapOf(Asset)],
    [name |-> "AssetPairs", ty |-> AssetPairs],
    [name |-> "Ticker", ty |-> HashMapOf(Ticker)],
    [name |-> "OrderBook", ty |-> HashMapOf(OrderBook)],
    [name |-> "TradeBalance", ty |-> TradeBalance],
    [name |-> "Balance", ty |-> HashMapOf(TString)],
    [name |-> "OpenOrder", ty |-> HashMapOf(OpenOrder)] >>

\* enum Responses, untagged, in declaration order.
Responses == <<
    [name |-> "Assets", ty |-> HashMapOf(Asset)],
    [name |-> "AssetPairs", ty |-> AssetPairs],
    [name |-> "Ticker", ty |-> HashMapOf(Ticker)],
    [name |-> "OrderBook", ty |-> HashMapOf(OrderBook)],
    [name |-> "TradeBalance", ty |-> TradeBalance],
    [name |-> "Balance", ty |-> HashMapOf(TString)],
    [name |-> "OpenOrder", ty |-> StructOf(<< Field("open", HashMapOf(OpenOrder)) >>)] >>

\* struct KrakenResponse { error: Vec<String>, result: Option<Responses> }
KrakenResponse == StructOf(<<
    Field("error", VecOf(TString)),
    Field("result", OptionOf(UntaggedOf(Responses))) >>)

\* ------------------------------------------------------------------ errors
\* What a call gives back: Ok(payload), Err(Errors::...), or a panic that
\* unwinds out of the call.  A payload is the variant that was resolved, the
\* AssetPairs sub-variant, and the keys of the returned map.
NoReturn == [tag |-> "None", err |-> "", msg |-> "", variant |-> "", sub |-> "", keys |-> {}]
Ok(variant, sub, keys) ==
    [tag |-> "Ok", err |-> "", msg |-> "", variant |-> variant, sub |-> sub, keys |-> keys]
Err(err, msg) ==
    [tag |-> "Err", err |-> err, msg |-> msg, variant |-> "", sub |-> "", keys |-> {}]
Panic == [tag |-> "Panic", err |-> "", msg |-> "", variant |-> "", sub |-> "", keys |-> {}]

\* ---------------------------------------------------------------- endpoints
PublicEndpoints == {"assets", "asset_pairs", "ticker", "order_book"}
PrivateEndpoints == {"account_balance", "trade_balance", "open_orders"}
Endpoints == PublicEndpoints \cup PrivateEndpoints

\* Urls::new: the path each endpoint's URL ends with.
UrlPath(ep) ==
    CASE ep = "assets" -> "/0/public/Assets"
      [] ep = "asset_pairs" -> "/0/public/AssetPairs"
      [] ep = "ticker" -> "/0/public/Ticker"
      [] ep = "order_book" -> "/0/public/Depth"
      [] ep = "account_balance" -> "/0/private/Balance"
      [] ep = "trade_balance" -> "/0/private/TradeBalance"
      [] ep = "open_orders" -> "/0/private/OpenOrders"

\* The Responses variant each endpoint method's match accepts.
ExpectedVariant(ep) ==
    CASE ep = "assets" -> "Assets"
      [] ep = "asset_pairs" -> "AssetPairs"
      [] ep = "ticker" -> "Ticker"
      [] ep = "order_book" -> "OrderBook"
      [] ep = "account_balance" -> "Balance"
      [] ep = "trade_balance" -> "TradeBalance"
      [] ep = "open_orders" -> "OpenOrder"

\* ------------------------------------------------------ envelope decoding
\* The value of member `name` of a JSON object (the first one), Null if absent.
Member(v, name) ==
    IF v.k = "obj" /\ \E i \in 1..Len(v.m) : v.m[i][1] = name
    THEN v.m[CHOOSE i \in 1..Len(v.m) :
                 v.m[i][1] = name /\ \A j \in 1..(i-1) : v.m[j][1] # name][2]
    ELSE Null

KeysOf(v) == {v.m[i][1] : i \in 1..Len(v.m)}

\* response.error.join(" ")
RECURSIVE Join(_)
Join(strs) ==
    IF Len(strs) = 0 THEN ""
    ELSE IF Len(strs) = 1 THEN strs[1].s
    ELSE strs[1].s \o " " \o Join(Tail(strs))

\* The payload handed to the caller for a result that resolved to variant i.
Payload(i, result) ==
    CASE Responses[i].name = "AssetPairs" ->
            Ok("AssetPairs", AssetPairsVariants[UntaggedPick(AssetPairsVariants, result)].name,
               KeysOf(result))
      [] Responses[i].name = "TradeBalance" -> Ok("TradeBalance", "", {})
      [] Responses[i].name = "OpenOrder" -> Ok("OpenOrder", "", KeysOf(Member(result, "open")))
      [] OTHER -> Ok(Responses[i].name, "", KeysOf(result))

\* The tail every endpoint method shares, from the body the transport gave:
\*   let response = ....json::<KrakenResponse>().await?;
\*   if response.error.len() != 0 { return Err(Errors::Kraken(join(" "))) }
\*   match response.result.unwrap() { Responses::X(r) => Ok(r), _ => Err(InvalidFormat) }
EndpointReturn(ep, body) ==
    LET parsed == De(KrakenResponse, body)
        error == Member(body, "error").m
        result == Member(body, "result")
        pick == UntaggedPick(Responses, result)
    IN  IF parsed = "panic" THEN Panic
        ELSE IF parsed = "err" THEN Err("Request", "")
        ELSE IF Len(error) # 0 THEN Err("Kraken", Join(error))
        ELSE IF result.k = "null" THEN Panic
        ELSE IF Responses[pick].name = ExpectedVariant(ep) THEN Payload(pick, result)
        ELSE Err("InvalidFormat", "")

\* ------------------------------------------------------------ sample bodies
\* Wire records of each documented shape, as the exchange sends them.
Fees2 == Arr(<<Arr(<<U64, F64>>), Arr(<<U64, F64>>)>>)
Numbers2 == Arr(<<Str("0.5"), Str("1603.2")>>)
Tuples1 == Arr(<<Arr(<<Str("0.5"), Str("80"), U64>>)>>)

AssetRec == Obj(<<
    <<"aclass", Str("currency")>>, <<"altname", Str("ADA")>>,
    <<"decimals", U64>>, <<"display_decimals", U64>> >>)

InfoRec == Obj(<<
    <<"altname", Str("XRPUSD")>>, <<"wsname", Str("XRP/USD")>>,
    <<"aclass_base", Str("currency")>>, <<"base", Str("XXRP")>>,
    <<"aclass_quote", Str("currency")>>, <<"quote", Str("ZUSD")>>,
    <<"lot", Str("unit")>>, <<"pair_decimals", U64>>, <<"lot_decimals", U64>>,
    <<"lot_multiplier", U64>>, <<"leverage_buy", Arr(<<U64, U64>>)>>,
    <<"leverage_sell", Arr(<<U64, U64>>)>>, <<"fees", Fees2>>,
    <<"fees_maker", Fees2>>, <<"fee_volume_currency", Str("ZUSD")>>,
    <<"margin_call", U64>>, <<"margin_stop", U64>>, <<"ordermin", Str("0.5")>> >>)

FeesRec == Obj(<< <<"fees", Fees2>>, <<"fee_volume_currency", Str("ZUSD")>> >>)

MarginRec == Obj(<< <<"margin_call", U64>>, <<"margin_level", U64>> >>)

TickerRec == Obj(<<
    <<"a", Numbers2>>, <<"b", Numbers2>>, <<"c", Numbers2>>, <<"v", Numbers2>>,
    <<"p", Numbers2>>, <<"t", Arr(<<U64, U64>>)>>, <<"l", Numbers2>>,
    <<"h", Numbers2>>, <<"o", Str("0.5")>> >>)

OrderBookRec == Obj(<< <<"asks", Tuples1>>, <<"bids", Tuples1>> >>)

DescrRec == Obj(<<
    <<"pair", Str("XRPUSD")>>, <<"type", Str("buy")>>, <<"ordertype", Str("limit")>>,
    <<"price", Str("0.5")>>, <<"price2", Str("0")>>, <<"leverage", Str("none")>>,
    <<"order", Str("buy 80 XRPUSD @ limit 0.5")>>, <<"close", Str("")>> >>)

OrderRec == Obj(<<
    <<"refid", Null>>, <<"userref", U64>>, <<"status", Str("open")>>,
    <<"opentm", F64>>, <<"starttm", U64>>, <<"expiretm", U64>>,
    <<"descr", DescrRec>>, <<"vol", Str("80")>>, <<"vol_exec", Str("0")>>,
    <<"cost", Str("0")>>, <<"fee", Str("0")>>, <<"price", Str("0")>>,
    <<"stopprice", Str("0")>>, <<"limitprice", Str("0")>>, <<"misc", Str("")>>,
    <<"oflags", Str("fciq")>> >>)

TradeBalanceRec == Obj(<<
    <<"eb", Str("1603.2")>>, <<"tb", Str("1603.2")>>, <<"m", Str("0")>>,
    <<"n", Str("0")>>, <<"c", Str("0")>>, <<"v", Str("0")>>,
    <<"e", Str("1603.2")>>, <<"mf", Str("1603.2")>> >>)

\* The keys of a generated map, in wire order.
PairKeys == <<"XXRPZUSD", "ADAETH", "XETHXXBT", "ZUSD", "XXBTZUSD">>

\* The values a generated map draws from: one record of each documented
\* shape and a balance (a decimal string).
MapEntries == {AssetRec, InfoRec, FeesRec, MarginRec, TickerRec, OrderBookRec,
               OrderRec, Str("0.5")}

\* Every object of at most MaxPairs members with values from MapEntries.
Maps ==
    UNION {{Obj([i \in 1..n |-> <<PairKeys[i], f[i]>>]) : f \in [1..n -> MapEntries]} :
           n \in 0..MaxPairs}

\* The object `obj` with the value of its member `name` replaced.
WithMember(obj, name, value) ==
    Obj([i \in 1..Len(obj.m) |->
            IF obj.m[i][1] = name THEN <<name, value>> ELSE obj.m[i]])

\* A decimal-string field whose text is no number.
NotANumber == Str("n/a")

\* A call of each endpoint with a result of its own shape in which one
\* numeric field does not parse: a required field, the optional ml and
\* ordermin, a Ticker string array, an OrderBook tuple, and a field of an
\* open order.
BadNumberCases == {
    [ep |-> "trade_balance",
     result |-> WithMember(TradeBalanceRec, "eb", NotANumber)],
    [ep |-> "trade_balance",
     result |-> Obj(TradeBalanceRec.m \o << <<"ml", NotANumber>> >>)],
    [ep |-> "asset_pairs",
     result |-> Obj(<< <<PairKeys[1], WithMember(InfoRec, "ordermin", NotANumber)>> >>)],
    [ep |-> "ticker",
     result |-> Obj(<< <<PairKeys[1],
                        WithMember(TickerRec, "a", Arr(<<NotANumber, Str("0.5")>>))>> >>)],
    [ep |-> "ticker",
     result |-> Obj(<< <<PairKeys[1], WithMember(TickerRec, "o", NotANumber)>> >>)],
    [ep |-> "order_book",
     result |-> Obj(<< <<PairKeys[1],
                        WithMember(OrderBookRec, "asks",
                            Arr(<<Arr(<<NotANumber, Str("80"), U64>>)>>))>> >>)],
    [ep |-> "open_orders",
     result |-> Obj(<< <<"open",
                        Obj(<< <<PairKeys[1], WithMember(OrderRec, "vol", NotANumber)>> >>)>> >>)] }

BadNumberResults == {c.result : c \in BadNumberCases}

\* The result values of the envelopes: null, a number, every generated map,
\* every generated map under the "open" wrapper, a trade balance with and
\* without the optional margin level, and the results with a bad number.
Results ==
    {Null, U64, TradeBalanceRec,
     Obj(TradeBalanceRec.m \o << <<"ml", Str("80")>> >>)}
    \cup Maps \cup {Obj(<< <<"open", g>> >>) : g \in Maps}
    \cup BadNumberResults

ErrorLists == {<<>>, <<Str("EGeneral:Invalid arguments")>>,
               <<Str("EAPI:Invalid key"), Str("EGeneral:Internal error")>>}

\* The bodies the transport may hand back: an envelope with and without a
\* result member, and a body that is no envelope at all.
Bodies ==
    {Obj(<< <<"error", Arr(e)>>, <<"result", r>> >>) : e \in ErrorLists, r \in Results}
    \cup {Obj(<< <<"error", Arr(e)>> >>) : e \in ErrorLists}
    \cup {Str("<html>502 Bad Gateway</html>")}

\* ------------------------------------------------------------------ signing
\* Text that is percent-encoded is a sequence of one-character strings.
Unreserved == {"0", "1", "2", "3", "4", "5", "6", "7", "8", "9",
               "a", "p", "w", "Z", "U", "S", "D", "*", "-", ".", "_"}

\* form_urlencoded::byte_serialize on one character.
ByteSerialize(c) ==
    CASE c \in Unreserved -> c
      [] c = " " -> "+"
      [] c = "&" -> "%26"
      [] c = "=" -> "%3D"
      [] c = "+" -> "%2B"

\* The characters as they are, as one string.
RECURSIVE Text(_)
Text(chars) == IF Len(chars) = 0 THEN "" ELSE Head(chars) \o Text(Tail(chars))

RECURSIVE FormEncode(_)
FormEncode(chars) ==
    IF Len(chars) = 0 THEN "" ELSE ByteSerialize(Head(chars)) \o FormEncode(Tail(chars))

\* u128::to_string: the decimal digits of n.
Digit(d) == <<"0", "1", "2", "3", "4", "5", "6", "7", "8", "9">>[d + 1]
RECURSIVE to_string(_)
to_string(n) == IF n < 10 THEN <<Digit(n)>> ELSE Append(to_string(n \div 10), Digit(n % 10))

\* Serializer::append_pair for each <<key, value>> of `pairs`, then finish().
\* The keys in use (nonce, otp, asset) hold unreserved characters only, so
\* byte_serialize leaves a key as it is.
RECURSIVE AppendPairs(_)
AppendPairs(pairs) ==
    IF Len(pairs) = 0 THEN ""
    ELSE pairs[1][1] \o "=" \o FormEncode(pairs[1][2])
         \o (IF Len(pairs) = 1 THEN "" ELSE "&" \o AppendPairs(Tail(pairs)))

\* serde_urlencoded on PrivatePostData { nonce, otp }: the fields in
\* declaration order, a None left out.  otp is <<>> for None, <<v>> for Some(v).
PrivatePostData(nonce, otp) ==
    AppendPairs(<< <<"nonce", nonce>> >> \o [i \in 1..Len(otp) |-> <<"otp", otp[i]>>])

\* The secrets a Credentials may hold, and base64::decode on them.
ValidSecret == "NZTRqjFqtb7Jbg5Yx7iRelcfCxiB7pL1FvvK3tokScThZDl0z7oi/m5aHhtKcUp2dIpT8qIbaMfp01Glzw24Ag=="
Secrets == {ValidSecret, "not-base64!"}
Base64DecodeOk(secret) == secret = ValidSecret
Base64Decode(secret) == <<"bytes-of", secret>>

\* The digests, as terms: equal exactly when their inputs are equal.
Sha256(data) == <<"sha256", data>>
HmacSha512(key, message) == <<"hmac-sha512", key, message>>
Base64Encode(bytes) == <<"base64", bytes>>

\* The orders in which a HashMap with the keys of `map` may be iterated.
IterationOrders(map) ==
    LET keys == DOMAIN map
    IN  {o \in [1..Cardinality(keys) -> keys] :
            \A i, j \in 1..Cardinality(keys) : i # j => o[i] # o[j]}

\* The i-th to last of the nonce and otp pairs of an iteration, in its order.
RECURSIVE SignedPairs(_, _, _)
SignedPairs(map, order, i) ==
    IF i > Len(order) THEN <<>>
    ELSE (IF order[i] \in {"nonce", "otp"} THEN << <<order[i], map[order[i]]>> >> ELSE <<>>)
         \o SignedPairs(map, order, i + 1)

\* The local encoded_params of create_signature, for one iteration order.
EncodedParams(params, order) == AppendPairs(SignedPairs(params, order, 1))

\* create_signature without the ? on base64::decode: the secret's text is
\* used as the key when it does not decode.
create_signature_unchecked(url, params, secret, order) ==
    [ok |-> TRUE,
     sig |-> Base64Encode(HmacSha512(Base64Decode(secret),
                 <<url[2], Sha256(Text(params["nonce"]) \o EncodedParams(params, order))>>))]

\* create_signature with the whole URL, scheme and host included, in the
\* message that is signed.
create_signature_whole_url(url, params, secret, order) ==
    IF ~Base64DecodeOk(secret) THEN [ok |-> FALSE, sig |-> <<>>]
    ELSE [ok |-> TRUE,
          sig |-> Base64Encode(HmacSha512(Base64Decode(secret),
                      <<url[1] \o url[2],
                        Sha256(Text(params["nonce"]) \o EncodedParams(params, order))>>))]

\* create_signature(url, params, secret), for one iteration order of params.
\* url is <<domain, path>>; Url::parse(url).path() is its path.
create_signature(url, params, secret, order) ==
    LET nonce == params["nonce"]
        path == url[2]
        sha == Sha256(Text(nonce) \o EncodedParams(params, order))
    IN  IF ~Base64DecodeOk(secret) THEN [ok |-> FALSE, sig |-> <<>>]
        ELSE [ok |-> TRUE,
              sig |-> Base64Encode(HmacSha512(Base64Decode(secret), <<path, sha>>))]

\* HashMap::insert: the last write to a key wins.
Insert(map, key, value) ==
    [x \in DOMAIN map \cup {key} |-> IF x = key THEN value ELSE map[x]]

\* The local query_params of private_request: the generated nonce first,
\* then every caller parameter in the caller's order.
RECURSIVE InsertAll(_, _)
InsertAll(map, pairs) ==
    IF Len(pairs) = 0 THEN map
    ELSE InsertAll(Insert(map, pairs[1][1], pairs[1][2]), Tail(pairs))

QueryParams(nonce, pairs) == InsertAll([x \in {"nonce"} |-> nonce], pairs)

\* ---------------------------------------------------------------- requests
Domain == "https://api.kraken.com"
\* The domains Urls::new is given: the exchange's, and the test server's.
Domains == {Domain, "http://0.0.0.0:4000"}
ApiKey == "api-key"

NoRequest == [method |-> "", url |-> <<>>, query |-> <<>>, api_key |-> "",
              api_sign |-> <<>>, body |-> ""]
Get(url, query) == [method |-> "GET", url |-> url, query |-> query, api_key |-> "",
                    api_sign |-> <<>>, body |-> ""]
Post(url, key, sign, body) == [method |-> "POST", url |-> url, query |-> <<>>,
                               api_key |-> key, api_sign |-> sign, body |-> body]

\* private_request(url, params) at clock reading `clock`, for one iteration
\* order of query_params: Err(Decode) from create_signature, or the POST.
private_request(url, pairs, clock, creds, order) ==
    LET nonce == to_string(clock)
        qp == QueryParams(nonce, pairs)
        signature == create_signature(url, qp, creds.secret, order)
    IN  IF ~signature.ok THEN [ok |-> FALSE, request |-> NoRequest]
        ELSE [ok |-> TRUE,
              request |-> Post(url, creds.api_key, signature.sig,
                               PrivatePostData(nonce, <<>>))]

\* ------------------------------------------------------------ caller inputs
Nonce16 == <<"1", "6">>
Nonce7 == <<"7">>
ParamPairs == {<<"nonce", Nonce16>>, <<"nonce", Nonce7>>,
               <<"otp", <<"p", "&", "w">>>>, <<"asset", <<"Z", "U", "S", "D">>>>}
ParamLists == UNION {[1..n -> ParamPairs] : n \in 0..MaxParams}

\* -------------------------------------------------------------------- state
VARIABLES
    now,             \* SystemTime::now(), in nanoseconds since the epoch
    credentials,     \* Kraken.credentials: [api_key, secret]
    urls,            \* Kraken.urls: the domain Urls::new was given
    pc,              \* where the caller's endpoint method is: "idle", "built"
                     \* (the request is built), "awaiting" (sent), "done"
    ep,              \* the endpoint method called
    call_params,     \* its params argument, until the request is sent
    query_params,    \* private_request's HashMap when it signed
    encoded_params,  \* create_signature's encoded_params when it signed
    request,         \* the request built, until it is sent
    sent,            \* whether the call handed a request to the transport
    resp,            \* the body the transport gave back
    ret,             \* what the call returned
    cpc,             \* concurrent callers: "start" or "stamped"
    cnonce,          \* concurrent callers: the clock reading each one took
    emitted          \* concurrent callers: the requests sent, in send order

vars == <<now, credentials, urls, pc, ep, call_params, query_params, encoded_params,
          request, sent, resp, ret, cpc, cnonce, emitted>>

callVars == <<pc, ep, call_params, query_params, encoded_params, request, sent, resp, ret>>
concVars == <<cpc, cnonce, emitted>>

NoBody == [k |-> "none", s |-> "", m |-> <<>>]
NoMap == [x \in {} |-> <<>>]
Procs == 1..NumProcs

Init ==
    /\ now = 0
    /\ credentials \in {[api_key |-> ApiKey, secret |-> sec] : sec \in Secrets}
    /\ urls \in Domains
    /\ pc = "idle"
    /\ ep = ""
    /\ call_params = <<>>
    /\ query_params = NoMap
    /\ encoded_params = ""
    /\ request = NoRequest
    /\ sent = FALSE
    /\ resp = NoBody
    /\ ret = NoReturn
    /\ cpc = [p \in Procs |-> "start"]
    /\ cnonce = [p \in Procs |-> 0]
    /\ emitted = <<>>

\* The system clock advances.
Tick ==
    /\ now < MaxClock
    /\ now' = now + 1
    /\ UNCHANGED <<credentials, urls, callVars, concVars>>

\* assets, asset_pairs, ticker, order_book, first statement:
\*   let request = self.client.get(&self.urls.X).query(params);
CallPublic(e, ps) ==
    /\ pc = "idle"
    /\ pc' = "built"
    /\ ep' = e
    /\ call_params' = ps
    /\ request' = Get(<<urls, UrlPath(e)>>, ps)
    /\ UNCHANGED <<now, credentials, urls, query_params, encoded_params, sent, resp, ret, concVars>>

\* account_balance, trade_balance, open_orders, first statement:
\*   let request = self.private_request(&self.urls.X, params)?;
\* The ? returns create_signature's Err(Decode) from the endpoint method.
CallPrivate(e, ps) ==
    /\ pc = "idle"
    /\ \E order \in IterationOrders(QueryParams(to_string(now), ps)) :
         LET url == <<urls, UrlPath(e)>>
             built == private_request(url, ps, now, credentials, order)
         IN  /\ ep' = e
             /\ call_params' = ps
             /\ IF built.ok
                THEN /\ pc' = "built"
                     /\ query_params' = QueryParams(to_string(now), ps)
                     /\ encoded_params' = EncodedParams(QueryParams(to_string(now), ps), order)
                     /\ request' = built.request
                     /\ ret' = ret
                ELSE /\ pc' = "done"
                     /\ query_params' = query_params
                     /\ encoded_params' = encoded_params
                     /\ request' = request
                     /\ ret' = Err("Decode", "")
    /\ UNCHANGED <<now, credentials, urls, sent, resp, concVars>>

\* request.send(): the request goes to the transport.
Send ==
    /\ pc = "built"
    /\ pc' = "awaiting"
    /\ sent' = TRUE
    /\ call_params' = <<>>
    /\ query_params' = NoMap
    /\ encoded_params' = ""
    /\ request' = NoRequest
    /\ UNCHANGED <<now, credentials, urls, ep, resp, ret, concVars>>

\* .await? on a failed send: From<reqwest::Error> gives Errors::Request.
SendFails ==
    /\ pc = "awaiting"
    /\ pc' = "done"
    /\ ret' = Err("Request", "")
    /\ UNCHANGED <<now, credentials, urls, ep, call_params, query_params, encoded_params,
                   request, sent, resp, concVars>>

\* The transport gives a body back and the endpoint method finishes:
\* .json::<KrakenResponse>().await?, the error check and the match.
Receive(body) ==
    /\ pc = "awaiting"
    /\ pc' = "done"
    /\ resp' = body
    /\ ret' = EndpointReturn(ep, body)
    /\ UNCHANGED <<now, credentials, urls, ep, call_params, query_params, encoded_params,
                   request, sent, concVars>>

\* The caller takes the result; the next call starts afresh.
Return ==
    /\ pc = "done"
    /\ pc' = "idle"
    /\ ep' = ""
    /\ sent' = FALSE
    /\ resp' = NoBody
    /\ ret' = NoReturn
    /\ UNCHANGED <<now, credentials, urls, call_params, query_params, encoded_params,
                   request, concVars>>

Next ==
    \/ Tick
    \/ \E e \in PublicEndpoints, ps \in ParamLists : CallPublic(e, ps)
    \/ \E e \in PrivateEndpoints, ps \in ParamLists : CallPrivate(e, ps)
    \/ Send
    \/ SendFails
    \/ \E body \in Bodies : Receive(body)
    \/ Return

Spec == Init /\ [][Next]_vars

\* ------------------------------------------------- concurrent private calls
\* Several callers share one Kraken and run private_request side by side.
\* Lines 529-533: a caller reads the clock for its nonce.
Stamp(p) ==
    /\ cpc[p] = "start"
    /\ cpc' = [cpc EXCEPT ![p] = "stamped"]
    /\ cnonce' = [cnonce EXCEPT ![p] = now]
    /\ UNCHANGED <<now, credentials, urls, callVars, emitted>>

\* Lines 535-550 and the send: the caller signs and posts the request that
\* carries the reading it took, or returns create_signature's error.
Emit(p, e, ps) ==
    /\ cpc[p] = "stamped"
    /\ Len(emitted) < MaxEmit
    /\ \E order \in IterationOrders(QueryParams(to_string(cnonce[p]), ps)) :
         LET built == private_request(<<urls, UrlPath(e)>>, ps, cnonce[p],
                                      credentials, order)
         IN  emitted' = IF built.ok
                        THEN Append(emitted, [nonce |-> cnonce[p],
                                              body |-> built.request.body])
                        ELSE emitted
    /\ cpc' = [cpc EXCEPT ![p] = "start"]
    /\ cnonce' = [cnonce EXCEPT ![p] = 0]
    /\ UNCHANGED <<now, credentials, urls, callVars>>

NextConc ==
    \/ Tick
    \/ \E p \in Procs : Stamp(p)
    \/ \E p \in Procs, e \in PrivateEndpoints, ps \in ParamLists : Emit(p, e, ps)

SpecConc == Init /\ [][NextConc]_vars

\* ------------------------------------------------------------------- claims
\* The envelope of the finished call: its error list and its result.
IsEnvelope(body) == body.k = "obj" /\ De(VecOf(TString), Member(body, "error")) = "ok"
ErrorsOf(body) == Member(body, "error").m
ResultOf(body) == Member(body, "result")
Finished == pc = "done" /\ resp # NoBody

\* C1: whenever the envelope has a non-empty error list, the call returns
\* Errors::Kraken with the error strings joined by one space, whatever the
\* result member holds.
C1_ErrorListAlwaysGivesKrakenError ==
    (Finished /\ IsEnvelope(resp) /\ Len(ErrorsOf(resp)) > 0)
        => ret = Err("Kraken", Join(ErrorsOf(resp)))

\* C2: an envelope with an empty error list and an absent or null result makes
\* the call return Errors::InvalidFormat as a value.
C2_MissingResultGivesInvalidFormat ==
    (Finished /\ IsEnvelope(resp) /\ Len(ErrorsOf(resp)) = 0 /\ ResultOf(resp).k = "null")
        => ret = Err("InvalidFormat", "")

\* C3: in every private call the form-encoded string hashed into the
\* signature is the form body of the POST that is sent.
C3_SignedBodyIsSentBody ==
    (pc = "built" /\ ep \in PrivateEndpoints) => encoded_params = request.body

\* C4: the nonces of the requests sent by concurrent private calls are
\* strictly increasing in the order the requests are sent.
C4_EmittedNoncesStrictlyIncrease ==
    \A i, j \in 1..Len(emitted) : i < j => emitted[i].nonce < emitted[j].nonce

\* C5: create_signature returns the same signature for the same url,
\* parameters and secret, however the parameter map is iterated.
C5_SignatureIndependentOfIteration ==
    (pc = "built" /\ ep \in PrivateEndpoints)
        => \A o1, o2 \in IterationOrders(query_params) :
              create_signature(request.url, query_params, credentials.secret, o1)
              = create_signature(request.url, query_params, credentials.secret, o2)

\* The AssetPairs matchers that accept a payload.
Accepting(result) ==
    {i \in 1..Len(AssetPairsVariants) : De(AssetPairsVariants[i].ty, result) = "ok"}

\* C6: no payload that asset_pairs returns is accepted by more than one of
\* the matchers Info, Fees and Margin.
C6_AtMostOneMatcherAccepts ==
    (Finished /\ ep = "asset_pairs" /\ ret.tag = "Ok")
        => Cardinality(Accepting(ResultOf(resp))) <= 1

\* A non-empty map whose every value is the record `rec`.
MapOfOnly(result, rec) ==
    /\ result.k = "obj"
    /\ Len(result.m) > 0
    /\ \A i \in 1..Len(result.m) : result.m[i][2] = rec

\* C7: asset_pairs resolves a non-empty result to the first of Info, Fees,
\* Margin that matches: a map of full pair records to Info, of {fees,
\* fee_volume_currency} records to Fees, of {margin_call, margin_level}
\* records to Margin, and the returned map has one entry per pair on the wire.
C7_AssetPairsResolution ==
    (Finished /\ ep = "asset_pairs" /\ IsEnvelope(resp) /\ Len(ErrorsOf(resp)) = 0)
        => LET result == ResultOf(resp)
           IN  /\ MapOfOnly(result, InfoRec)
                    => ret = Ok("AssetPairs", "Info", KeysOf(result))
               /\ MapOfOnly(result, FeesRec)
                    => ret = Ok("AssetPairs", "Fees", KeysOf(result))
               /\ MapOfOnly(result, MarginRec)
                    => ret = Ok("AssetPairs", "Margin", KeysOf(result))
               /\ ret.tag = "Ok"
                    => /\ Cardinality(ret.keys) = Len(result.m)
                       /\ \E i \in Accepting(result) :
                            /\ ret.sub = AssetPairsVariants[i].name
                            /\ \A j \in Accepting(result) : i <= j

C7_Witness ==
    /\ Finished /\ ep = "asset_pairs"
    /\ MapOfOnly(ResultOf(resp), MarginRec)
    /\ Len(ResultOf(resp).m) = 2
    /\ ret = Ok("AssetPairs", "Margin", {PairKeys[1], PairKeys[2]})

\* The type of the Responses variant an endpoint method expects.
ExpectedType(e) ==
    Responses[CHOOSE i \in 1..Len(Responses) : Responses[i].name = ExpectedVariant(e)].ty

\* C8: an envelope with an empty error list and a present result that does
\* not have the endpoint's shape makes the call return Errors::InvalidFormat.
C8_UnexpectedShapeGivesInvalidFormat ==
    (/\ Finished /\ IsEnvelope(resp) /\ Len(ErrorsOf(resp)) = 0
     /\ ResultOf(resp).k # "null"
     /\ De(ExpectedType(ep), ResultOf(resp)) # "ok")
        => ret = Err("InvalidFormat", "")

\* The value of the last nonce pair of a parameter list.
CallerNonces(pairs) == {i \in 1..Len(pairs) : pairs[i][1] = "nonce"}
LastCallerNonce(pairs) ==
    pairs[CHOOSE i \in CallerNonces(pairs) : \A j \in CallerNonces(pairs) : j <= i][2]

\* C9: a private call signs a parameter set that holds a nonce, and when the
\* caller passes a nonce that value is the nonce of the request: the one
\* signed and the one in the body that is sent.
C9_CallerNonceIsRequestNonce ==
    (pc = "built" /\ ep \in PrivateEndpoints)
        => /\ "nonce" \in DOMAIN query_params
           /\ CallerNonces(call_params) # {}
                => /\ query_params["nonce"] = LastCallerNonce(call_params)
                   /\ request.body = PrivatePostData(LastCallerNonce(call_params), <<>>)

\* C10: with a secret that is not valid base64 a private call returns
\* Errors::Decode and hands no request to the transport; a public call is
\* sent and never returns Errors::Decode.
C10_BadSecretStopsPrivateCalls ==
    ~Base64DecodeOk(credentials.secret)
        => /\ ep \in PrivateEndpoints
                => /\ ~sent
                   /\ request.method # "POST"
                   /\ pc # "idle" => (pc = "done" /\ ret = Err("Decode", ""))
           /\ ep \in PublicEndpoints
                => /\ ret.err # "Decode"
                   /\ pc \in {"awaiting", "done"} => sent

C10_Witness ==
    /\ ~Base64DecodeOk(credentials.secret)
    /\ ep \in PrivateEndpoints /\ pc = "done" /\ ret = Err("Decode", "") /\ ~sent

\* The form encodings of the nonce and otp pairs of a map, in every order.
NonceAndOtp(map) == [x \in DOMAIN map \cap {"nonce", "otp"} |-> map[x]]
SignedBodies(map) ==
    {AppendPairs([i \in 1..Len(o) |-> <<o[i], map[o[i]]>>]) :
        o \in IterationOrders(NonceAndOtp(map))}

\* C11: the signature is base64(HMAC-SHA512(key = the decoded secret,
\* message = the URL's path ++ SHA-256(nonce ++ form-encoded body))), where
\* the path is the path component alone, whatever the scheme and host, and
\* the body holds the nonce and otp pairs and no other parameter.
C11_SignatureFormula ==
    (pc = "built" /\ ep \in PrivateEndpoints)
        => /\ request.api_sign =
                Base64Encode(HmacSha512(Base64Decode(credentials.secret),
                    <<UrlPath(ep), Sha256(Text(query_params["nonce"]) \o encoded_params)>>))
           /\ encoded_params \in SignedBodies(query_params)

C11_Witness ==
    /\ pc = "built" /\ ep = "account_balance" /\ urls # Domain
    /\ DOMAIN query_params = {"nonce", "otp", "asset"}
    /\ request.api_sign =
         Base64Encode(HmacSha512(Base64Decode(ValidSecret),
             <<"/0/private/Balance", Sha256("0" \o "otp=p%26w&nonce=0")>>))

\* C12: a decimal-string numeric field that does not parse as a number makes
\* the call return Errors::InvalidFormat as a value, and never panics.
C12_BadNumberGivesInvalidFormat ==
    (/\ Finished /\ IsEnvelope(resp) /\ Len(ErrorsOf(resp)) = 0
     /\ [ep |-> ep, result |-> ResultOf(resp)] \in BadNumberCases)
        => ret = Err("InvalidFormat", "")

\* A map, possibly empty, whose every value is an open order record.
OrderMap(v) == v.k = "obj" /\ \A i \in 1..Len(v.m) : v.m[i][2] = OrderRec

\* C13: open_orders returns Ok exactly for a result that carries an order map
\* under the wrapper key "open"; the returned map is the inner map, its keys
\* the order ids under "open"; an order map at top level is not Ok.
C13_OpenOrdersStripsWrapper ==
    (Finished /\ ep = "open_orders" /\ IsEnvelope(resp) /\ Len(ErrorsOf(resp)) = 0)
        => LET result == ResultOf(resp)
               open == Member(result, "open")
           IN  /\ (result.k = "obj" /\ KeysOf(result) = {"open"} /\ OrderMap(open))
                    => ret = Ok("OpenOrder", "", KeysOf(open))
               /\ ret.tag = "Ok"
                    => /\ result.k = "obj" /\ "open" \in KeysOf(result)
                       /\ OrderMap(open)
                       /\ ret.keys = KeysOf(open)
               /\ MapOfOnly(result, OrderRec) => ret.tag # "Ok"

C13_Witness ==
    /\ Finished /\ ep = "open_orders"
    /\ ResultOf(resp) = Obj(<< <<"open", Obj(<< <<PairKeys[1], OrderRec>> >>)>> >>)
    /\ ret = Ok("OpenOrder", "", {PairKeys[1]})

\* The index in Responses of the first variant whose type accepts the result,
\* 0 when none does.
FirstAccepting(result) ==
    LET acc == {i \in 1..Len(Responses) : De(Responses[i].ty, result) = "ok"}
    IN  IF acc = {} THEN 0 ELSE CHOOSE i \in acc : \A j \in acc : i <= j

\* C14: the result resolves to the first variant of Responses that accepts
\* it, whatever the endpoint; an empty-object result with an empty error list
\* therefore resolves to Assets: assets returns Ok with an empty map and every
\* other endpoint returns Errors::InvalidFormat.
C14_EmptyObjectResolvesToAssets ==
    (Finished /\ IsEnvelope(resp) /\ Len(ErrorsOf(resp)) = 0)
        => LET result == ResultOf(resp)
           IN  /\ result = Obj(<<>>)
                    => /\ FirstAccepting(result) = 1
                       /\ ret = IF ep = "assets" THEN Ok("Assets", "", {})
                                ELSE Err("InvalidFormat", "")
               /\ ret.tag = "Ok"
                    => /\ FirstAccepting(result) # 0
                       /\ ret.variant = Responses[FirstAccepting(result)].name
               /\ (ret = Err("InvalidFormat", "") /\ result.k # "null")
                    => /\ FirstAccepting(result) # 0
                       /\ Responses[FirstAccepting(result)].name # ExpectedVariant(ep)

C14_Witness ==
    /\ Finished /\ ep = "account_balance"
    /\ IsEnvelope(resp) /\ Len(ErrorsOf(resp)) = 0
    /\ ResultOf(resp) = Obj(<<>>)
    /\ ret = Err("InvalidFormat", "")

====
